---- MODULE Spec2Model ----
(***************************************************************************)
(* Model of the zk-coprocessor-program (Anchor/Solana):                    *)
(*   post_wormhole_message, init_receipt_config,                           *)
(*   record_receipt_from_vaa, record_receipt_direct.                       *)
(* One action per instruction.  An instruction is the Anchor account       *)
(* validation of its #[derive(Accounts)] struct followed by the handler    *)
(* body; an Err result aborts the transaction and leaves every account as  *)
(* it was before the call.                                                 *)
(***************************************************************************)
EXTENDS Integers, Sequences, FiniteSets, Bags, TLC

VARIABLES
    cfg,              \* the ReceiptConfig account at seeds ["cfg"], or NoCfg
    receipts,         \* Receipt accounts, keyed by the address of ["receipt", emitter, sequence]
    events,           \* the ReceiptRecorded events emitted by committed calls (a bag)
    clock,            \* Clock::get()?.unix_timestamp
    bridgeFee,        \* fee field of the hub's BridgeData (Bridge config) account
    payerBalance,     \* lamports of the payer
    collectorBalance, \* lamports of the hub's fee collector
    hubSequence,      \* the hub's sequence tracker of this program's emitter
    calls,            \* number of instructions submitted so far
    last              \* the last instruction submitted: its name, arguments, result and CPI steps

vars == <<cfg, receipts, events, clock, bridgeFee, payerBalance,
          collectorBalance, hubSequence, calls, last>>

----------------------------------------------------------------------------
\* Bounds of the model

MaxCalls == 3
MaxClock == 1
MaxSeq == 1
MaxFee == 1
InitialBalance == 2

----------------------------------------------------------------------------
\* Identities, accounts and argument domains

HubProgram == "Wormhole"
OtherProgram == "Other"
NativeLoader == "NativeLoader"
DefaultPubkey == "11111111111111111111111111111111"

Signers == {"alice", "bob"}
Emitters == {"E1", "E2"}
Sequences == 1..MaxSeq
\* The (signer, evm_chain, emitter) combinations callers submit to init_receipt_config.
InitArgs ==
    {[admin |-> "alice", evm_chain |-> 2, emitter |-> "E1"],
     [admin |-> "bob", evm_chain |-> 5, emitter |-> "E2"]}
ZeroBytes32 == "00"

ReceiptKeys == Emitters \X Sequences

\* The accounts a caller can pass as posted_vaa: two PostedVAA accounts of the
\* hub, an account of another program, and the all-zero address (the system
\* program's own account, owned by the native loader).
PostedVaaAccounts == {"vaaA", "vaaB", "forged", DefaultPubkey}

AccountOwner(key) ==
    CASE key = "vaaA" -> HubProgram
      [] key = "vaaB" -> HubProgram
      [] key = "forged" -> OtherProgram
      [] key = DefaultPubkey -> NativeLoader
      [] key = "Bridge" -> HubProgram
      [] key = "hubOther" -> HubProgram
      [] key = "hubShort" -> HubProgram
      [] key = "foreignCfg" -> OtherProgram
      [] OTHER -> OtherProgram

\* The emitter and sequence carried in the body of a posted_vaa account.
PostedVaaData(key) ==
    CASE key = "vaaA" -> [emitter |-> "E1", sequence |-> 1]
      [] key = "vaaB" -> [emitter |-> "E2", sequence |-> 1]
      [] OTHER -> [emitter |-> "E1", sequence |-> 1]

NoCfg == [exists |-> FALSE]
NoReceipt == [exists |-> FALSE]

CfgBump == 254
ReceiptBump(emitter, sequence) == 255 - sequence
\* Mutant: the emitter is missing from the seeds.
ReceiptAddress_NoEmitter(emitter, sequence) == <<"E1", sequence>>

ReceiptAddress(emitter, sequence) == <<emitter, sequence>>

\* The account `init` / `init_if_needed` allocates: zeroed data behind the discriminator.
ZeroReceipt ==
    [exists |-> TRUE, emitter |-> ZeroBytes32, sequence |-> 0,
     vaa_account |-> DefaultPubkey, posted_timestamp |-> 0, bump |-> 0]

ZeroCfg ==
    [exists |-> TRUE, admin |-> DefaultPubkey, evm_chain |-> 0,
     emitter |-> ZeroBytes32, bump |-> 0]

ReceiptRecorded(emitter, sequence, vaa) ==
    [emitter |-> emitter, sequence |-> sequence, vaa |-> vaa]

\* The accounts of this program, as one value a call reads and writes.
Ledger == [cfg |-> cfg, receipts |-> receipts, events |-> events]

\* Mutant: a failed call keeps the writes made before the failure.
Commit_NoRollback(result, pre, post) == post

\* A call commits its writes only when it returns Ok.
Commit(result, pre, post) == IF result = "Ok" THEN post ELSE pre

----------------------------------------------------------------------------
\* init_receipt_config

\* Mutant: init_if_needed in place of init, the existing account is loaded.
InitReceiptConfigAccounts_IfNeeded(st) ==
    IF st.cfg.exists
    THEN [result |-> "Ok", st |-> st]
    ELSE [result |-> "Ok", st |-> [st EXCEPT !.cfg = ZeroCfg]]

\* #[account(init, seeds = [b"cfg"], bump)]: allocation fails when the account exists.
InitReceiptConfigAccounts(st) ==
    IF st.cfg.exists
    THEN [result |-> "AccountAlreadyInUse", st |-> st]
    ELSE [result |-> "Ok", st |-> [st EXCEPT !.cfg = ZeroCfg]]

init_receipt_config(st, admin, evm_chain, emitter) ==
    LET v == InitReceiptConfigAccounts(st) IN
    IF v.result # "Ok" THEN v
    ELSE [result |-> "Ok",
          st |-> [v.st EXCEPT !.cfg = [exists |-> TRUE, admin |-> admin,
                                       evm_chain |-> evm_chain,
                                       emitter |-> emitter, bump |-> CfgBump]]]

----------------------------------------------------------------------------
\* record_receipt_from_vaa

\* cfg: Account<ReceiptConfig> must be initialised; receipt: init_if_needed
\* allocates the account when it is absent and loads it when it exists.
RecordReceiptFromVaaAccounts(st, emitter, sequence) ==
    LET k == ReceiptAddress(emitter, sequence) IN
    IF ~st.cfg.exists
    THEN [result |-> "AccountNotInitialized", st |-> st]
    ELSE IF st.receipts[k].exists
    THEN [result |-> "Ok", st |-> st]
    ELSE [result |-> "Ok", st |-> [st EXCEPT !.receipts[k] = ZeroReceipt]]

\* The receipt the proof-backed handler writes, and its event.
WriteVaaReceipt(st, now, emitter, sequence, posted_vaa) ==
    LET k == ReceiptAddress(emitter, sequence) IN
    [result |-> "Ok",
     st |-> [st EXCEPT
               !.receipts[k] = [exists |-> TRUE, emitter |-> emitter,
                                sequence |-> sequence,
                                vaa_account |-> posted_vaa,
                                posted_timestamp |-> now,
                                bump |-> ReceiptBump(emitter, sequence)],
               !.events = @ (+) SetToBag({ReceiptRecorded(emitter, sequence, posted_vaa)})]]

\* Mutant: the emitter comparison is missing.
record_receipt_from_vaa_NoEmitterCheck(st, now, emitter, sequence, posted_vaa) ==
    LET v == RecordReceiptFromVaaAccounts(st, emitter, sequence) IN
    IF v.result # "Ok" THEN v
    ELSE IF AccountOwner(posted_vaa) # HubProgram
    THEN [result |-> "InvalidPostedVaaOwner", st |-> v.st]
    ELSE WriteVaaReceipt(v.st, now, emitter, sequence, posted_vaa)

\* Mutant: the emitter argument is compared with the emitter carried in the
\* proof, not with cfg.emitter.
record_receipt_from_vaa_EmitterVsProof(st, now, emitter, sequence, posted_vaa) ==
    LET v == RecordReceiptFromVaaAccounts(st, emitter, sequence) IN
    IF v.result # "Ok" THEN v
    ELSE IF AccountOwner(posted_vaa) # HubProgram
    THEN [result |-> "InvalidPostedVaaOwner", st |-> v.st]
    ELSE IF emitter # PostedVaaData(posted_vaa).emitter
    THEN [result |-> "EmitterAddressMismatch", st |-> v.st]
    ELSE WriteVaaReceipt(v.st, now, emitter, sequence, posted_vaa)

\* Mutant: the cfg account is optional, and without it the emitter comparison
\* is skipped.
record_receipt_from_vaa_CfgOptional(st, now, emitter, sequence, posted_vaa) ==
    IF AccountOwner(posted_vaa) # HubProgram
    THEN [result |-> "InvalidPostedVaaOwner", st |-> st]
    ELSE IF st.cfg.exists /\ emitter # st.cfg.emitter
    THEN [result |-> "EmitterAddressMismatch", st |-> st]
    ELSE WriteVaaReceipt(st, now, emitter, sequence, posted_vaa)

\* Mutant: the emitter comparison runs before the owner comparison.
record_receipt_from_vaa_EmitterFirst(st, now, emitter, sequence, posted_vaa) ==
    LET v == RecordReceiptFromVaaAccounts(st, emitter, sequence) IN
    IF v.result # "Ok" THEN v
    ELSE IF emitter # v.st.cfg.emitter
    THEN [result |-> "EmitterAddressMismatch", st |-> v.st]
    ELSE IF AccountOwner(posted_vaa) # HubProgram
    THEN [result |-> "InvalidPostedVaaOwner", st |-> v.st]
    ELSE WriteVaaReceipt(v.st, now, emitter, sequence, posted_vaa)

record_receipt_from_vaa(st, now, emitter, sequence, posted_vaa) ==
    LET v == RecordReceiptFromVaaAccounts(st, emitter, sequence) IN
    IF v.result # "Ok" THEN v
    ELSE IF AccountOwner(posted_vaa) # HubProgram
    THEN [result |-> "InvalidPostedVaaOwner", st |-> v.st]
    ELSE IF emitter # v.st.cfg.emitter
    THEN [result |-> "EmitterAddressMismatch", st |-> v.st]
    ELSE WriteVaaReceipt(v.st, now, emitter, sequence, posted_vaa)

----------------------------------------------------------------------------
\* record_receipt_direct

RecordReceiptDirectAccounts(st, emitter, sequence) ==
    LET k == ReceiptAddress(emitter, sequence) IN
    IF ~st.cfg.exists
    THEN [result |-> "AccountNotInitialized", st |-> st]
    ELSE IF st.receipts[k].exists
    THEN [result |-> "Ok", st |-> st]
    ELSE [result |-> "Ok", st |-> [st EXCEPT !.receipts[k] = ZeroReceipt]]

\* Mutant: the handler also stores its emitter argument in the mutable cfg.
WriteDirectReceipt_UpdatesCfg(st, now, emitter, sequence) ==
    LET k == ReceiptAddress(emitter, sequence) IN
    [result |-> "Ok",
     st |-> [st EXCEPT
               !.cfg.emitter = emitter,
               !.receipts[k] = [exists |-> TRUE, emitter |-> emitter,
                                sequence |-> sequence,
                                vaa_account |-> DefaultPubkey,
                                posted_timestamp |-> now,
                                bump |-> ReceiptBump(emitter, sequence)],
               !.events = @ (+) SetToBag({ReceiptRecorded(emitter, sequence, DefaultPubkey)})]]

\* The receipt the administrator handler writes, and its event.
WriteDirectReceipt(st, now, emitter, sequence) ==
    LET k == ReceiptAddress(emitter, sequence) IN
    [result |-> "Ok",
     st |-> [st EXCEPT
               !.receipts[k] = [exists |-> TRUE, emitter |-> emitter,
                                sequence |-> sequence,
                                vaa_account |-> DefaultPubkey,
                                posted_timestamp |-> now,
                                bump |-> ReceiptBump(emitter, sequence)],
               !.events = @ (+) SetToBag({ReceiptRecorded(emitter, sequence, DefaultPubkey)})]]

\* Mutant: the admin comparison is missing.
record_receipt_direct_NoAdminCheck(st, now, admin, emitter, sequence) ==
    LET v == RecordReceiptDirectAccounts(st, emitter, sequence) IN
    IF v.result # "Ok" THEN v
    ELSE WriteDirectReceipt(v.st, now, emitter, sequence)

record_receipt_direct(st, now, admin, emitter, sequence) ==
    LET v == RecordReceiptDirectAccounts(st, emitter, sequence) IN
    IF v.result # "Ok" THEN v
    ELSE IF v.st.cfg.admin # admin
    THEN [result |-> "NotAdmin", st |-> v.st]
    ELSE WriteDirectReceipt(v.st, now, emitter, sequence)

----------------------------------------------------------------------------
\* post_wormhole_message

ConfigAccounts == {"Bridge", "hubOther", "hubShort", "foreignCfg"}
FinalityFlags == 0..2
\* The (batch_id, payload) arguments callers submit.
Messages == {[batch_id |-> 0, payload |-> <<1>>], [batch_id |-> 7, payload |-> <<2, 3>>]}

OtherFee == 1
EmitterBump == 253

\* The address of seeds [b"emitter", bump] under this program.
EmitterPda(bump) == <<"emitter", bump>>

\* Mutant: the two branches are swapped.
Finality_Swapped(finality_flag) ==
    IF finality_flag = 0 THEN "Finalized" ELSE "Confirmed"

Finality(finality_flag) ==
    IF finality_flag = 0 THEN "Confirmed" ELSE "Finalized"

\* Mutant: the fee is a value read earlier, not the live one.
BridgeDataDeserialize_Stale(config, liveFee) ==
    CASE config = "Bridge" -> [ok |-> TRUE, fee |-> OtherFee]
      [] config = "hubOther" -> [ok |-> TRUE, fee |-> OtherFee]
      [] OTHER -> [ok |-> FALSE, fee |-> 0]

\* BridgeData::try_deserialize over the bytes of the account passed as config:
\* the hub's Bridge account holds the live fee, another hub account of the same
\* length decodes to whatever its bytes spell, a short one does not decode.
BridgeDataDeserialize(config, liveFee) ==
    CASE config = "Bridge" -> [ok |-> TRUE, fee |-> liveFee]
      [] config = "hubOther" -> [ok |-> TRUE, fee |-> OtherFee]
      [] OTHER -> [ok |-> FALSE, fee |-> 0]

\* The accounts the relay touches, as one value; message is the fresh message
\* account the caller supplies for the hub to fill.
NoMessage == [exists |-> FALSE]

Relay ==
    [payer |-> payerBalance, collector |-> collectorBalance,
     sequence |-> hubSequence, message |-> NoMessage]

\* One step of the handler as an observer sees it: the fee read, the transfer
\* instruction with its lamports, the cross-program call into the hub.
Step(name, lamports) == [step |-> name, lamports |-> lamports]

\* system_instruction::transfer(payer, fee_collector, fee) through invoke.
SystemTransfer(rel, lamports) ==
    IF rel.payer < lamports
    THEN [result |-> "InsufficientFunds", rel |-> rel]
    ELSE [result |-> "Ok",
          rel |-> [rel EXCEPT !.payer = @ - lamports, !.collector = @ + lamports]]

\* The hub's post_message: it accepts only its own Bridge account as config
\* and may refuse for its own reasons (hubAccepts); on success it stores the
\* message in the message account and advances the emitter's sequence tracker.
HubPostMessage(rel, config, emitter, batch_id, payload, fin, hubAccepts) ==
    IF config # "Bridge" \/ ~hubAccepts
    THEN [result |-> "HubError", rel |-> rel]
    ELSE [result |-> "Ok",
          rel |-> [rel EXCEPT
                     !.message = [exists |-> TRUE, emitter |-> emitter,
                                  batch_id |-> batch_id, payload |-> payload,
                                  finality |-> fin, sequence |-> rel.sequence],
                     !.sequence = @ + 1]]

\* Mutant: the hub is called before the fee is transferred.
post_wormhole_message_PostFirst(rel, liveFee, config, batch_id, payload, finality_flag, hubAccepts) ==
    LET fin == Finality(finality_flag)
        bridge_data == BridgeDataDeserialize(config, liveFee)
        fee == bridge_data.fee
        posted == HubPostMessage(rel, config, EmitterPda(EmitterBump),
                                 batch_id, payload, fin, hubAccepts)
        paid == IF fee > 0 THEN SystemTransfer(posted.rel, fee)
                           ELSE [result |-> "Ok", rel |-> posted.rel]
        stepsPosted == <<Step("read_fee", fee), Step("post_message", 0)>>
    IN
    IF AccountOwner(config) # HubProgram
    THEN [result |-> "ConfigOwnerMismatch", rel |-> rel, fee |-> 0, steps |-> <<>>]
    ELSE IF ~bridge_data.ok
    THEN [result |-> "BridgeDeserialize", rel |-> rel, fee |-> 0, steps |-> <<>>]
    ELSE IF posted.result # "Ok"
    THEN [result |-> posted.result, rel |-> posted.rel, fee |-> fee, steps |-> stepsPosted]
    ELSE [result |-> paid.result, rel |-> paid.rel, fee |-> fee,
          steps |-> IF fee > 0 THEN Append(stepsPosted, Step("transfer", fee))
                               ELSE stepsPosted]

post_wormhole_message(rel, liveFee, config, batch_id, payload, finality_flag, hubAccepts) ==
    LET fin == Finality(finality_flag)
        bridge_data == BridgeDataDeserialize(config, liveFee)
        fee == bridge_data.fee
        paid == IF fee > 0 THEN SystemTransfer(rel, fee)
                           ELSE [result |-> "Ok", rel |-> rel]
        stepsPaid == IF fee > 0 THEN <<Step("read_fee", fee), Step("transfer", fee)>>
                                ELSE <<Step("read_fee", fee)>>
        posted == HubPostMessage(paid.rel, config, EmitterPda(EmitterBump),
                                 batch_id, payload, fin, hubAccepts)
    IN
    IF AccountOwner(config) # HubProgram
    THEN [result |-> "ConfigOwnerMismatch", rel |-> rel, fee |-> 0, steps |-> <<>>]
    ELSE IF ~bridge_data.ok
    THEN [result |-> "BridgeDeserialize", rel |-> rel, fee |-> 0, steps |-> <<>>]
    ELSE IF paid.result # "Ok"
    THEN [result |-> paid.result, rel |-> paid.rel, fee |-> fee, steps |-> stepsPaid]
    ELSE [result |-> posted.result, rel |-> posted.rel, fee |-> fee,
          steps |-> Append(stepsPaid, Step("post_message", 0))]

----------------------------------------------------------------------------
\* The state machine

NoCall ==
    [op |-> "none", result |-> "none", signer |-> "-", emitter |-> "-",
     sequence |-> 0, vaa |-> "-", evm_chain |-> 0, config |-> "-",
     batch_id |-> 0, payload |-> <<>>, flag |-> 0, fee |-> 0, steps |-> <<>>,
     message |-> NoMessage]

Init ==
    /\ cfg = NoCfg
    /\ receipts = [k \in ReceiptKeys |-> NoReceipt]
    /\ events = EmptyBag
    /\ clock = 0
    /\ bridgeFee \in 0..MaxFee
    /\ payerBalance = InitialBalance
    /\ collectorBalance = 0
    /\ hubSequence = 0
    /\ calls = 0
    /\ last = NoCall

\* What a call on this program's accounts leaves behind.
ApplyLedger(out) ==
    LET st == Commit(out.result, Ledger, out.st) IN
    /\ cfg' = st.cfg
    /\ receipts' = st.receipts
    /\ events' = st.events

ApplyRelay(out) ==
    LET rel == Commit(out.result, Relay, out.rel) IN
    /\ payerBalance' = rel.payer
    /\ collectorBalance' = rel.collector
    /\ hubSequence' = rel.sequence

InitReceiptConfig ==
    /\ calls < MaxCalls
    /\ \E a \in InitArgs :
         LET out == init_receipt_config(Ledger, a.admin, a.evm_chain, a.emitter) IN
         /\ ApplyLedger(out)
         /\ last' = [NoCall EXCEPT !.op = "init_receipt_config", !.result = out.result,
                                   !.signer = a.admin, !.evm_chain = a.evm_chain,
                                   !.emitter = a.emitter]
    /\ calls' = calls + 1
    /\ UNCHANGED <<clock, bridgeFee, payerBalance, collectorBalance, hubSequence>>

RecordReceiptFromVaa ==
    /\ calls < MaxCalls
    /\ \E emitter \in Emitters, sequence \in Sequences,
          posted_vaa \in PostedVaaAccounts :
         LET out == record_receipt_from_vaa(Ledger, clock, emitter, sequence, posted_vaa) IN
         /\ ApplyLedger(out)
         /\ last' = [NoCall EXCEPT !.op = "record_receipt_from_vaa", !.result = out.result,
                                   !.emitter = emitter, !.sequence = sequence,
                                   !.vaa = posted_vaa]
    /\ calls' = calls + 1
    /\ UNCHANGED <<clock, bridgeFee, payerBalance, collectorBalance, hubSequence>>

RecordReceiptDirect ==
    /\ calls < MaxCalls
    /\ \E admin \in Signers, emitter \in Emitters, sequence \in Sequences :
         LET out == record_receipt_direct(Ledger, clock, admin, emitter, sequence) IN
         /\ ApplyLedger(out)
         /\ last' = [NoCall EXCEPT !.op = "record_receipt_direct", !.result = out.result,
                                   !.signer = admin, !.emitter = emitter,
                                   !.sequence = sequence]
    /\ calls' = calls + 1
    /\ UNCHANGED <<clock, bridgeFee, payerBalance, collectorBalance, hubSequence>>

PostWormholeMessage ==
    /\ calls < MaxCalls
    /\ \E config \in ConfigAccounts, msg \in Messages,
          finality_flag \in FinalityFlags, hubAccepts \in BOOLEAN :
         LET out == post_wormhole_message(Relay, bridgeFee, config, msg.batch_id,
                                          msg.payload, finality_flag, hubAccepts) IN
         /\ ApplyRelay(out)
         /\ last' = [NoCall EXCEPT !.op = "post_wormhole_message", !.result = out.result,
                                   !.config = config, !.batch_id = msg.batch_id,
                                   !.payload = msg.payload, !.flag = finality_flag,
                                   !.fee = out.fee, !.steps = out.steps,
                                   !.message = out.rel.message]
    /\ calls' = calls + 1
    /\ UNCHANGED <<cfg, receipts, events, clock, bridgeFee>>

\* The hub's governance sets a new message fee in its Bridge account.
SetBridgeFee ==
    /\ \E f \in 0..MaxFee : f # bridgeFee /\ bridgeFee' = f
    /\ UNCHANGED <<cfg, receipts, events, clock, payerBalance, collectorBalance,
                   hubSequence, calls, last>>

\* Time passes on the ledger.
Tick ==
    /\ clock < MaxClock
    /\ clock' = clock + 1
    /\ UNCHANGED <<cfg, receipts, events, bridgeFee, payerBalance, collectorBalance,
                   hubSequence, calls, last>>

Next ==
    \/ InitReceiptConfig
    \/ RecordReceiptFromVaa
    \/ RecordReceiptDirect
    \/ PostWormholeMessage
    \/ SetBridgeFee
    \/ Tick

Spec == Init /\ [][Next]_vars

----------------------------------------------------------------------------
\* Properties

\* The step from this state to the next is a submitted call of instruction op.
Called(op) == calls' = calls + 1 /\ last'.op = op

\* The receipt address the last call named.
LastKey == ReceiptAddress(last.emitter, last.sequence)

StepNames(steps) == {steps[i].step : i \in 1..Len(steps)}

\* C1: after init_receipt_config, a record_receipt_from_vaa call with valid
\* preconditions (proof account owned by the hub, emitter equal to cfg.emitter)
\* for a pair that the proof-backed path has already recorded fails, and the
\* stored Receipt is the same before and after it.
C1_SecondRecordFails ==
    [][(/\ Called("record_receipt_from_vaa")
        /\ cfg.exists
        /\ AccountOwner(last'.vaa) = HubProgram
        /\ last'.emitter = cfg.emitter
        /\ receipts[LastKey'].exists
        /\ receipts[LastKey'].vaa_account # DefaultPubkey)
       => (/\ last'.result # "Ok"
           /\ receipts'[LastKey'] = receipts[LastKey'])]_vars

\* C2: a Receipt, once created, is never changed or deleted by any step.
C2_ReceiptImmutable ==
    [][\A k \in ReceiptKeys : receipts[k].exists => receipts'[k] = receipts[k]]_vars

\* C3 (as stated): record_receipt_from_vaa with an emitter argument different
\* from cfg.emitter fails with EmitterAddressMismatch, creates no Receipt and
\* emits no event.
C3_MismatchAlwaysEmitterError ==
    [][(/\ Called("record_receipt_from_vaa")
        /\ cfg.exists
        /\ last'.emitter # cfg.emitter)
       => (/\ last'.result = "EmitterAddressMismatch"
           /\ receipts' = receipts
           /\ events' = events)]_vars

\* C3 (amended): record_receipt_from_vaa with an emitter argument different
\* from cfg.emitter always fails, with EmitterAddressMismatch when the proof
\* account is owned by the hub and with InvalidPostedVaaOwner when it is not
\* (the owner comparison runs first); the receipt account the validation step
\* allocated is rolled back and no event is emitted.
C3_MismatchFails ==
    [][(/\ Called("record_receipt_from_vaa")
        /\ cfg.exists
        /\ last'.emitter # cfg.emitter)
       => (/\ last'.result = IF AccountOwner(last'.vaa) = HubProgram
                             THEN "EmitterAddressMismatch"
                             ELSE "InvalidPostedVaaOwner"
           /\ receipts' = receipts
           /\ events' = events)]_vars

\* C3 witness: a call with a hub-owned proof and a foreign emitter has just
\* failed with EmitterAddressMismatch, and the pair it named has no Receipt.
C3_Witness ==
    /\ last.op = "record_receipt_from_vaa"
    /\ last.result = "EmitterAddressMismatch"
    /\ cfg.exists
    /\ last.emitter # cfg.emitter
    /\ AccountOwner(last.vaa) = HubProgram
    /\ ~receipts[LastKey].exists

\* C4: record_receipt_direct signed by an identity other than cfg.admin fails
\* with NotAdmin and changes neither the Receipts nor the ReceiptConfig nor the
\* events; and a Receipt is written with the null sourceProof only by a
\* record_receipt_direct call signed by cfg.admin.
C4_NonAdminRejected ==
    [][/\ (/\ Called("record_receipt_direct")
           /\ cfg.exists
           /\ last'.signer # cfg.admin)
          => (/\ last'.result = "NotAdmin"
              /\ receipts' = receipts
              /\ cfg' = cfg
              /\ events' = events)
       /\ \A k \in ReceiptKeys :
            (/\ receipts'[k] # receipts[k]
             /\ receipts'[k].exists
             /\ receipts'[k].vaa_account = DefaultPubkey)
            => (/\ Called("record_receipt_direct")
                /\ cfg.exists
                /\ last'.signer = cfg.admin
                /\ last'.result = "Ok")]_vars

\* C4 witness: a non-admin call has just failed with NotAdmin while a Receipt
\* with the null sourceProof, recorded by the admin, is stored.
C4_Witness ==
    /\ last.op = "record_receipt_direct"
    /\ last.result = "NotAdmin"
    /\ cfg.exists
    /\ last.signer # cfg.admin
    /\ \E k \in ReceiptKeys :
         receipts[k].exists /\ receipts[k].vaa_account = DefaultPubkey

\* C5: a post_wormhole_message call whose finality flag is neither 0 nor 1
\* fails, with no fee transfer issued and no call into the hub.
C5_BadFlagFails ==
    (last.op = "post_wormhole_message" /\ last.flag \notin {0, 1})
    => (/\ last.result # "Ok"
        /\ "transfer" \notin StepNames(last.steps)
        /\ "post_message" \notin StepNames(last.steps))

\* C6: every successful post_wormhole_message moves from the payer to the fee
\* collector exactly the fee the hub's Bridge account holds when the call is
\* made, in one transfer instruction carrying that amount; when that fee is 0
\* it issues no transfer instruction and still calls the hub.
C6_ExactLiveFee ==
    [][(Called("post_wormhole_message") /\ last'.result = "Ok")
       => (/\ last'.config = "Bridge"
           /\ last'.fee = bridgeFee
           /\ payerBalance' = payerBalance - bridgeFee
           /\ collectorBalance' = collectorBalance + bridgeFee
           /\ last'.steps =
                IF bridgeFee = 0
                THEN <<Step("read_fee", 0), Step("post_message", 0)>>
                ELSE <<Step("read_fee", bridgeFee), Step("transfer", bridgeFee),
                       Step("post_message", 0)>>)]_vars

\* C6 witness: a call has just succeeded at fee 0 without a transfer, after an
\* earlier call paid a fee that was not 0.
C6_Witness ==
    /\ last.op = "post_wormhole_message"
    /\ last.result = "Ok"
    /\ last.fee = 0
    /\ "transfer" \notin StepNames(last.steps)
    /\ "post_message" \in StepNames(last.steps)
    /\ collectorBalance > 0

\* C7: once the ReceiptConfig exists no step changes it and every
\* init_receipt_config call fails; it comes into existence only by a
\* successful init_receipt_config, holding that call's signer as admin, its
\* chain id, its emitter and the canonical bump.
C7_InitOnce ==
    [][/\ cfg.exists
          => (/\ cfg' = cfg
              /\ Called("init_receipt_config") => last'.result # "Ok")
       /\ (~cfg.exists /\ cfg'.exists)
          => (/\ Called("init_receipt_config")
              /\ last'.result = "Ok"
              /\ cfg' = [exists |-> TRUE, admin |-> last'.signer,
                         evm_chain |-> last'.evm_chain,
                         emitter |-> last'.emitter, bump |-> CfgBump])]_vars

\* C7 witness: a second init_receipt_config, by another signer with another
\* emitter, has just failed and the ReceiptConfig still names the first admin.
C7_Witness ==
    /\ last.op = "init_receipt_config"
    /\ last.result # "Ok"
    /\ cfg.exists
    /\ cfg.admin # last.signer
    /\ cfg.emitter # last.emitter

\* C8: a post_wormhole_message call that fails leaves the payer's and the fee
\* collector's balances and the hub's sequence state as they were; one that
\* succeeds has paid the fee and had the hub record the message.
C8_RelayAtomic ==
    [][Called("post_wormhole_message")
       => IF last'.result = "Ok"
          THEN /\ payerBalance' = payerBalance - last'.fee
               /\ collectorBalance' = collectorBalance + last'.fee
               /\ hubSequence' = hubSequence + 1
               /\ last'.message.exists
               /\ last'.message.sequence = hubSequence
          ELSE /\ payerBalance' = payerBalance
               /\ collectorBalance' = collectorBalance
               /\ hubSequence' = hubSequence
               /\ ~last'.message.exists]_vars

\* C8 witness: the hub has just refused a call after the fee transfer was
\* issued, and no lamport has left the payer.
C8_Witness ==
    /\ last.op = "post_wormhole_message"
    /\ last.result = "HubError"
    /\ last.fee > 0
    /\ "transfer" \in StepNames(last.steps)
    /\ payerBalance = InitialBalance
    /\ collectorBalance = 0

\* C9: record_receipt_from_vaa succeeds only when the emitter carried in the
\* posted_vaa account equals cfg.emitter and the sequence carried in it equals
\* the sequence argument.
C9_ProofEmitterChecked ==
    (last.op = "record_receipt_from_vaa" /\ last.result = "Ok")
    => (/\ PostedVaaData(last.vaa).emitter = cfg.emitter
        /\ PostedVaaData(last.vaa).sequence = last.sequence)

\* C10 (as stated): record_receipt_from_vaa with a posted_vaa account that the
\* hub does not own fails with InvalidPostedVaaOwner, creates no Receipt and
\* emits no event.
C10_ForeignProofAlwaysOwnerError ==
    [][(/\ Called("record_receipt_from_vaa")
        /\ AccountOwner(last'.vaa) # HubProgram)
       => (/\ last'.result = "InvalidPostedVaaOwner"
           /\ receipts' = receipts
           /\ events' = events)]_vars

\* C10 (amended): record_receipt_from_vaa with a posted_vaa account that the
\* hub does not own always fails, creates no Receipt and emits no event; the
\* error is InvalidPostedVaaOwner once the ReceiptConfig exists, whatever the
\* emitter argument, and AccountNotInitialized before that.
C10_ForeignProofFails ==
    [][(/\ Called("record_receipt_from_vaa")
        /\ AccountOwner(last'.vaa) # HubProgram)
       => (/\ last'.result = IF cfg.exists THEN "InvalidPostedVaaOwner"
                                           ELSE "AccountNotInitialized"
           /\ receipts' = receipts
           /\ events' = events)]_vars

\* C10 witness: a call naming the expected emitter with a proof account of
\* another program has just failed with InvalidPostedVaaOwner, and the pair it
\* named has no Receipt.
C10_Witness ==
    /\ last.op = "record_receipt_from_vaa"
    /\ last.result = "InvalidPostedVaaOwner"
    /\ cfg.exists
    /\ last.emitter = cfg.emitter
    /\ AccountOwner(last.vaa) # HubProgram
    /\ ~receipts[LastKey].exists

\* The position of the step called name in steps, 0 when it is not there.
StepIndex(steps, name) ==
    IF name \in StepNames(steps)
    THEN CHOOSE i \in 1..Len(steps) : steps[i].step = name
    ELSE 0

\* C11: a post_wormhole_message call whose config account is not owned by the
\* hub, or whose bytes do not decode as BridgeData, fails (ConfigOwnerMismatch,
\* BridgeDeserialize) with no fee read, no transfer and no hub call; a call
\* that gets further reads the fee first, and a successful call issues the
\* transfer (exactly when the fee is above 0) after the read and before the
\* hub call, which is its last step.
C11_RelayStepOrder ==
    (last.op = "post_wormhole_message")
    => LET steps == last.steps
           n == Len(steps)
       IN
       /\ AccountOwner(last.config) # HubProgram
          => (last.result = "ConfigOwnerMismatch" /\ steps = <<>>)
       /\ (/\ AccountOwner(last.config) = HubProgram
           /\ ~BridgeDataDeserialize(last.config, bridgeFee).ok)
          => (last.result = "BridgeDeserialize" /\ steps = <<>>)
       /\ steps # <<>> => steps[1].step = "read_fee"
       /\ "transfer" \in StepNames(steps)
          => (/\ StepIndex(steps, "read_fee") < StepIndex(steps, "transfer")
              /\ "post_message" \in StepNames(steps)
                 => StepIndex(steps, "transfer") < StepIndex(steps, "post_message"))
       /\ last.result = "Ok"
          => (/\ steps[n].step = "post_message"
              /\ ("transfer" \in StepNames(steps)) <=> (last.fee > 0)
              /\ n = IF last.fee > 0 THEN 3 ELSE 2)

\* C11 witness: with a fee above 0 in force, a call passing a hub-owned
\* account that does not decode has just failed with nothing read, paid or
\* posted.
C11_Witness ==
    /\ last.op = "post_wormhole_message"
    /\ last.config = "hubShort"
    /\ last.result = "BridgeDeserialize"
    /\ last.steps = <<>>
    /\ bridgeFee > 0
    /\ payerBalance = InitialBalance
    /\ hubSequence = 0

\* C12: every stored Receipt whose vaa_account is not the null address has its
\* emitter equal to cfg.emitter.
C12_ProofBackedEmitter ==
    \A k \in ReceiptKeys :
        (receipts[k].exists /\ receipts[k].vaa_account # DefaultPubkey)
        => (cfg.exists /\ receipts[k].emitter = cfg.emitter)

\* C12 witness: a proof-backed Receipt with the expected emitter is stored
\* next to an administrator-asserted Receipt with another emitter.
C12_Witness ==
    /\ cfg.exists
    /\ \E k \in ReceiptKeys :
         /\ receipts[k].exists
         /\ receipts[k].vaa_account # DefaultPubkey
         /\ receipts[k].emitter = cfg.emitter
    /\ \E k \in ReceiptKeys :
         /\ receipts[k].exists
         /\ receipts[k].vaa_account = DefaultPubkey
         /\ receipts[k].emitter # cfg.emitter

RECURSIVE CopiesOver(_, _, _, _)
\* How many events in bag name the pair (emitter, sequence), over the
\* sourceProof values in vaas.
CopiesOver(bag, emitter, sequence, vaas) ==
    IF vaas = {} THEN 0
    ELSE LET v == CHOOSE x \in vaas : TRUE IN
         CopiesIn(ReceiptRecorded(emitter, sequence, v), bag)
         + CopiesOver(bag, emitter, sequence, vaas \ {v})

EventsFor(bag, emitter, sequence) ==
    CopiesOver(bag, emitter, sequence, PostedVaaAccounts)

\* C13: a successful recording call adds exactly one ReceiptRecorded event,
\* whose emitter, sequence and vaa are those of the Receipt the call stored
\* (vaa the proof account's address on the proof path, the null address on the
\* administrator path); a failed recording call adds none; and after the call
\* the pair it named has been announced by exactly one event.
C13_OneEventPerPair ==
    [][(Called("record_receipt_from_vaa") \/ Called("record_receipt_direct"))
       => LET k == LastKey'
              r == receipts'[k]
          IN
          IF last'.result = "Ok"
          THEN /\ r.exists
               /\ r.emitter = last'.emitter
               /\ r.sequence = last'.sequence
               /\ r.vaa_account = IF last'.op = "record_receipt_from_vaa"
                                  THEN last'.vaa ELSE DefaultPubkey
               /\ events' = events (+) SetToBag({ReceiptRecorded(r.emitter, r.sequence,
                                                                 r.vaa_account)})
               /\ EventsFor(events', r.emitter, r.sequence) = 1
          ELSE events' = events]_vars

\* C14: on a successful post_wormhole_message the hub receives the caller's
\* batch id and payload unchanged, finality Confirmed for flag 0 and Finalized
\* for flag 1, signed for by the address of seeds ["emitter", bump] with the
\* bump of the derivation context.
C14_HubReceivesArguments ==
    (last.op = "post_wormhole_message" /\ last.result = "Ok")
    => (/\ last.message.exists
        /\ last.message.batch_id = last.batch_id
        /\ last.message.payload = last.payload
        /\ last.flag = 0 => last.message.finality = "Confirmed"
        /\ last.flag = 1 => last.message.finality = "Finalized"
        /\ last.message.emitter = EmitterPda(EmitterBump))

\* C14 witness: a second message, with flag 1, batch id 7 and a two-byte
\* payload, has just been accepted by the hub as Finalized.
C14_Witness ==
    /\ last.op = "post_wormhole_message"
    /\ last.result = "Ok"
    /\ last.flag = 1
    /\ last.batch_id = 7
    /\ last.payload = <<2, 3>>
    /\ last.message.finality = "Finalized"
    /\ last.message.sequence = 1
    /\ hubSequence = 2

\* C15: the Receipt stored at the address of seeds ("receipt", e, s) has
\* emitter e and sequence s.
C15_KeyMatchesRecord ==
    \A k \in ReceiptKeys :
        receipts[k].exists
        => (receipts[k].emitter = k[1] /\ receipts[k].sequence = k[2])

\* C15 witness: Receipts recorded through both paths are stored at two
\* addresses, one of them for an emitter that is not the expected one.
C15_Witness ==
    \E k1, k2 \in ReceiptKeys :
        /\ k1 # k2
        /\ receipts[k1].exists /\ receipts[k1].vaa_account # DefaultPubkey
        /\ receipts[k2].exists /\ receipts[k2].vaa_account = DefaultPubkey
        /\ k2[1] # cfg.emitter

RecordingOps == {"record_receipt_from_vaa", "record_receipt_direct"}

\* C16: while the ReceiptConfig does not exist every recording call fails (in
\* account validation, AccountNotInitialized), no Receipt is stored and no
\* event has been emitted; so whenever a Receipt is stored the ReceiptConfig
\* exists.
C16_NoReceiptBeforeConfig ==
    /\ (\E k \in ReceiptKeys : receipts[k].exists) => cfg.exists
    /\ ~cfg.exists
       => (/\ events = EmptyBag
           /\ last.op \in RecordingOps => last.result = "AccountNotInitialized")

\* C16 witness: before any init_receipt_config, a proof-backed recording call
\* with a hub-owned proof has just failed and nothing is stored.
C16_Witness ==
    /\ ~cfg.exists
    /\ last.op = "record_receipt_from_vaa"
    /\ AccountOwner(last.vaa) = HubProgram
    /\ last.result = "AccountNotInitialized"
    /\ \A k \in ReceiptKeys : ~receipts[k].exists

\* C17: a recording call for the pair (e, s), whether it succeeds or fails,
\* leaves the ReceiptConfig and the Receipt of every other pair unchanged; a
\* post_wormhole_message call leaves the ReceiptConfig and every Receipt
\* unchanged.
C17_Frame ==
    [][/\ (Called("record_receipt_from_vaa") \/ Called("record_receipt_direct"))
          => (/\ cfg' = cfg
              /\ \A k \in ReceiptKeys :
                   k # <<last'.emitter, last'.sequence>> => receipts'[k] = receipts[k])
       /\ Called("post_wormhole_message")
          => (cfg' = cfg /\ receipts' = receipts /\ events' = events)]_vars

\* C17 witness: a recording call has just succeeded for one pair while the
\* Receipt of another pair is stored.
C17_Witness ==
    /\ last.op \in RecordingOps
    /\ last.result = "Ok"
    /\ cfg.exists
    /\ \E k \in ReceiptKeys :
         k # <<last.emitter, last.sequence>> /\ receipts[k].exists

====
